---- MODULE Spec2Model ----
(***************************************************************************)
(* State-machine model of the be-my-eyes detection service:               *)
(*   routers/data.py            detect_objects (request handler)          *)
(*   controllers/ObjectDetectionController.py   detect_objects            *)
(*   services/detection_service.py   organize_services                     *)
(*   services/tts_service.py    TTSService.get_speech / clear_cache        *)
(*   models/yolo, models/vlm, models/tts   the three wrapped engines       *)
(*                                                                         *)
(* Optional[T] values are sequences: None is << >>, a value x is << x >>.  *)
(* An exception message (str(e)) is a sequence of text tokens; the empty   *)
(* sequence is the empty string.                                           *)
(***************************************************************************)
EXTENDS Integers, Sequences, FiniteSets, TLC

\* ------------------------------------------------------------------ bounds
NumReqs == 2
MaxObjects == 3
MaxCalls == 3
MaxWidth == 6
NumThreads == 2

\* ------------------------------------------------------------ value domains
Reqs == 1..NumReqs
Threads == 1..NumThreads

None == << >>
Some(x) == << x >>

\* confidences and thresholds in tenths (0.3, 0.5, 0.6, 0.9)
Confs == {3, 6, 9}
\* routers/data.py: confidence: float = 0.5
DefaultConfidence == 5
Thresholds == {DefaultConfidence, 6}

DetectedObjects ==
  {[object |-> "person", position |-> "center", confidence |-> c] : c \in Confs}

RECURSIVE SeqsUpTo(_, _)
SeqsUpTo(S, n) ==
  IF n = 0 THEN {<< >>}
  ELSE LET shorter == SeqsUpTo(S, n - 1)
       IN  shorter \cup {Append(s, x) : s \in {t \in shorter : Len(t) = n - 1}, x \in S}

\* what model(img) can yield for one image: every sequence of up to MaxObjects
\* boxes, and the outputs of images with at most one box
DetectorOutputs == SeqsUpTo(DetectedObjects, MaxObjects)
SingleBoxOutputs == {D \in DetectorOutputs : Len(D) <= 1}

\* caption texts the remote model may return; "" is the empty string
Texts == {"", "a", "b"}

\* str(e) of an exception raised by a third-party library: Python gives the
\* empty string for an exception constructed without arguments
ExcMessages == {<< >>, <<"detail">>}

Filenames == {"photo.jpg", "PHOTO.JPG", "tool.exe"}
AllowedExtensions == {".png", ".jpg", ".jpeg"}

\* ------------------------------------------------------------- pure helpers
splitext_lower(filename) ==
  CASE filename = "photo.jpg" -> ".jpg"
    [] filename = "PHOTO.JPG" -> ".jpg"
    [] filename = "tool.exe" -> ".exe"

\* save_upload_file: ValueError(f"Only ... formats are allowed. Your file has
\* extension: {ext}")
extension_error(ext) ==
  <<"Only .png, .jpg, .jpeg formats are allowed. Your file has extension: ", ext>>

save_upload_file_write_first(filename, write_ok, id) ==
  LET ext == splitext_lower(filename)
  IN  IF ~write_ok
      THEN [raised |-> TRUE, msg |-> <<"[Errno 28] No space left on device">>,
            ext |-> ext, path |-> None, created |-> TRUE]
      ELSE IF ext \notin AllowedExtensions
      THEN [raised |-> TRUE, msg |-> extension_error(ext), ext |-> ext,
            path |-> None, created |-> TRUE]
      ELSE [raised |-> FALSE, msg |-> << >>, ext |-> ext, path |-> Some(id),
            created |-> TRUE]

\* file_utils.save_upload_file: the extension test, then the file is opened
\* and written under a uuid name (id); write_ok is whether the write succeeds,
\* created whether open() has made a file
save_upload_file(filename, write_ok, id) ==
  LET ext == splitext_lower(filename)
  IN  IF ext \notin AllowedExtensions
      THEN [raised |-> TRUE, msg |-> extension_error(ext), ext |-> ext,
            path |-> None, created |-> FALSE]
      ELSE IF ~write_ok
      THEN [raised |-> TRUE, msg |-> <<"[Errno 28] No space left on device">>,
            ext |-> ext, path |-> None, created |-> TRUE]
      ELSE [raised |-> FALSE, msg |-> << >>, ext |-> ext, path |-> Some(id),
            created |-> TRUE]

\* Python truthiness of an Optional[str]: None and "" are falsy
truthy_not_none(opt) == opt # None

truthy(opt) == opt # None /\ opt # Some("")

filtered_objects_strict(objects, min_confidence) ==
  SelectSeq(objects, LAMBDA obj : obj.confidence > min_confidence)

\* ObjectDetectionController.detect_objects: the list comprehension
filtered_objects(objects, min_confidence) ==
  SelectSeq(objects, LAMBDA obj : obj.confidence >= min_confidence)

\* YOLOModelManager.load_model: RuntimeError(f"Model loading failed: {str(e)}")
load_error(inner) == <<"Model loading failed: ">> \o inner

\* TTSService.get_speech: RuntimeError(f"TTS Service Error: {str(e)}")
tts_error(inner) == <<"TTS Service Error: ">> \o inner

\* ------------------------------------------------------------------- maps
EmptyMap == [k \in {} |-> k]
Put_replacing(m, k, v) == [x \in {k} |-> v]

Put(m, k, v) == [x \in (DOMAIN m) \cup {k} |-> IF x = k THEN v ELSE m[x]]
Remove(m, k) == [x \in (DOMAIN m) \ {k} |-> m[x]]

\* settings.YOLO_MODEL_NAME
ModelName == "yolo.pt"

\* ---------------------------------------------------------------- engines
\* outcome of YOLO(model_path) at first use / of Image.open / of model(img)
DetectOutcomes == {"load_fail", "open_fail", "infer_fail", "ok"}

\* names load_model(model_name) can be given: the default and another file
ModelNames == {ModelName, "custom.pt"}

load_model_keeping_failed(models, model_name, load_ok, inner, handle) ==
  IF model_name \notin DOMAIN models
  THEN IF load_ok
       THEN [raised |-> FALSE, msg |-> << >>, models |-> Put(models, model_name, handle),
             attempted |-> TRUE, model |-> Some(handle)]
       ELSE [raised |-> TRUE, msg |-> load_error(inner),
             models |-> Put(models, model_name, handle),
             attempted |-> TRUE, model |-> None]
  ELSE [raised |-> FALSE, msg |-> << >>, models |-> models,
        attempted |-> FALSE, model |-> Some(models[model_name])]

\* YOLOModelManager.load_model on a cache: handle is the handle a fresh load
\* would give, load_ok whether YOLO(model_path) succeeds, inner its str(e)
load_model(models, model_name, load_ok, inner, handle) ==
  IF model_name \notin DOMAIN models
  THEN IF load_ok
       THEN [raised |-> FALSE, msg |-> << >>, models |-> Put(models, model_name, handle),
             attempted |-> TRUE, model |-> Some(handle)]
       ELSE [raised |-> TRUE, msg |-> load_error(inner), models |-> models,
             attempted |-> TRUE, model |-> None]
  ELSE [raised |-> FALSE, msg |-> << >>, models |-> models,
        attempted |-> FALSE, model |-> Some(models[model_name])]

after_detect_swallowing(raised) == "caption"

\* organize_services after step 1: detect_objects_yolo is called outside any
\* try, so a raise leaves organize_services for the controller's except
\* branch; otherwise step 2 follows
after_detect(raised) == IF raised THEN "except" ELSE "caption"

\* image widths and box edges, in pixels
Widths == 1..MaxWidth
Boxes ==
  {[x_min |-> a, x_max |-> b, img_width |-> w] :
     a \in 0..MaxWidth, b \in 0..MaxWidth, w \in Widths}

\* detect_objects_yolo: x_center = (x_min + x_max) / 2. Python's / is true
\* division; the value is kept exact as its double, x_min + x_max.
x_center_doubled(x_min, x_max) == x_min + x_max

determine_position_inclusive(x2, img_width) ==
  IF 3 * x2 <= 2 * img_width THEN "left"
  ELSE IF 3 * x2 >= 4 * img_width THEN "right"
  ELSE "center"

\* YOLOModelManager._determine_position, on x2 = 2 * x_center:
\*   x_center < img_width / 3      is  3 * x2 < 2 * img_width
\*   x_center > 2 * img_width / 3  is  3 * x2 > 4 * img_width
determine_position(x2, img_width) ==
  IF 3 * x2 < 2 * img_width THEN "left"
  ELSE IF 3 * x2 > 4 * img_width THEN "right"
  ELSE "center"

\* what requests.post / the remote service can give the captioner
VlmResponses ==
  {[kind |-> k, text |-> ""] :
     k \in {"exception", "http_error", "no_choices", "bad_choice", "null_content"}}
  \cup {[kind |-> "content", text |-> t] : t \in Texts}

\* values of settings.OPENROUTER_API_KEY: set to the empty string, or to a key
ApiKeys == {"", "sk-or-key"}

secret_truthy_not_none(key) == TRUE

\* truth value of the key, as `if settings.OPENROUTER_API_KEY` (a SecretStr)
\* and `if not self.api_key` (its str value) take it: non-zero length
secret_truthy(key) == key # ""

caption_of_response_fallback(resp) ==
  IF resp.kind = "content" THEN Some(resp.text) ELSE Some("a")

\* VLMModelManager.generate_caption after the remote call: the return value
caption_of_response(resp) ==
  IF resp.kind = "content" THEN Some(resp.text) ELSE None

\* the try body of generate_caption: open(image_path) raises ("unreadable"),
\* requests.post raises, raise_for_status raises, or indexing the first choice
\* raises; otherwise the body returns
caption_try_body(resp) ==
  [raised |-> resp.kind \in {"unreadable", "exception", "http_error", "bad_choice"},
   ret |-> caption_of_response(resp)]

generate_caption_reraise(resp) ==
  LET body == caption_try_body(resp)
  IN  IF body.raised
      THEN [raised |-> TRUE, ret |-> None, logged |-> TRUE]
      ELSE [raised |-> FALSE, ret |-> body.ret, logged |-> FALSE]

\* VLMModelManager.generate_caption past the credential test: the try body
\* under `except Exception as e: logger.error(...); return None`
generate_caption(resp) ==
  LET body == caption_try_body(resp)
  IN  IF body.raised
      THEN [raised |-> FALSE, ret |-> None, logged |-> TRUE]
      ELSE [raised |-> FALSE, ret |-> body.ret, logged |-> FALSE]

\* the event loop's owner once request r has reached
\* `await asyncio.to_thread(requests.post, ...)`: nobody, the call runs in a
\* worker thread
loop_owner_blocking(r) == r

loop_owner_during_post(r) == 0

\* gTTS outcomes: the constructor raises, save() raises after opening the
\* file, or the file is written
EngineOutcomes == {"ok", "fail_ctor", "fail_save"}

generate_speech_swallow(text, engine, id, inner) ==
  IF text = ""
  THEN [raised |-> TRUE, msg |-> <<"Empty text cannot be converted to speech">>,
        path |-> None, named |-> FALSE, file |-> None, engine_used |-> FALSE]
  ELSE [raised |-> FALSE, msg |-> << >>, path |-> Some(id), named |-> TRUE,
        file |-> CASE engine = "ok" -> Some("complete")
                   [] engine = "fail_ctor" -> None
                   [] engine = "fail_save" -> Some("partial"),
        engine_used |-> TRUE]

generate_speech_unvalidated(text, engine, id, inner) ==
  CASE text # "" /\ engine = "ok" ->
         [raised |-> FALSE, msg |-> << >>, path |-> Some(id), named |-> TRUE,
          file |-> Some("complete"), engine_used |-> TRUE]
    [] text = "" \/ engine = "fail_ctor" ->
         [raised |-> TRUE, msg |-> <<"Speech generation failed: ">> \o inner,
          path |-> None, named |-> TRUE, file |-> None, engine_used |-> TRUE]
    [] text # "" /\ engine = "fail_save" ->
         [raised |-> TRUE, msg |-> <<"Speech generation failed: ">> \o inner,
          path |-> None, named |-> TRUE, file |-> Some("partial"),
          engine_used |-> TRUE]

\* TTSModel.generate_speech; id is the uuid4 the call would draw, named
\* whether it drew it, engine_used whether gTTS was called, file what
\* tts.save left at the path
generate_speech(text, engine, id, inner) ==
  IF text = ""
  THEN [raised |-> TRUE, msg |-> <<"Empty text cannot be converted to speech">>,
        path |-> None, named |-> FALSE, file |-> None, engine_used |-> FALSE]
  ELSE CASE engine = "ok" ->
              [raised |-> FALSE, msg |-> << >>, path |-> Some(id), named |-> TRUE,
               file |-> Some("complete"), engine_used |-> TRUE]
         [] engine = "fail_ctor" ->
              [raised |-> TRUE, msg |-> <<"Speech generation failed: ">> \o inner,
               path |-> None, named |-> TRUE, file |-> None, engine_used |-> TRUE]
         [] engine = "fail_save" ->
              [raised |-> TRUE, msg |-> <<"Speech generation failed: ">> \o inner,
               path |-> None, named |-> TRUE, file |-> Some("partial"),
               engine_used |-> TRUE]

get_speech_nostore(cache_map, text, use_cache, gen) ==
  IF use_cache /\ text \in DOMAIN cache_map
  THEN [raised |-> FALSE, msg |-> << >>, ret |-> Some(cache_map[text]),
        cache |-> cache_map, invoked |-> FALSE]
  ELSE IF gen.raised
       THEN [raised |-> TRUE, msg |-> tts_error(gen.msg), ret |-> None,
             cache |-> cache_map, invoked |-> TRUE]
       ELSE [raised |-> FALSE, msg |-> << >>, ret |-> gen.path,
             cache |-> cache_map, invoked |-> TRUE]

get_speech_always_store(cache_map, text, use_cache, gen) ==
  IF use_cache /\ text \in DOMAIN cache_map
  THEN [raised |-> FALSE, msg |-> << >>, ret |-> Some(cache_map[text]),
        cache |-> cache_map, invoked |-> FALSE]
  ELSE IF gen.raised
       THEN [raised |-> TRUE, msg |-> tts_error(gen.msg), ret |-> None,
             cache |-> cache_map, invoked |-> TRUE]
       ELSE [raised |-> FALSE, msg |-> << >>, ret |-> gen.path,
             cache |-> Put(cache_map, text, gen.path[1]), invoked |-> TRUE]

get_speech_store_early(cache_map, text, use_cache, gen) ==
  IF use_cache /\ text \in DOMAIN cache_map
  THEN [raised |-> FALSE, msg |-> << >>, ret |-> Some(cache_map[text]),
        cache |-> cache_map, invoked |-> FALSE]
  ELSE IF gen.raised
       THEN [raised |-> TRUE, msg |-> tts_error(gen.msg), ret |-> None,
             cache |-> IF use_cache THEN Put(cache_map, text, 0) ELSE cache_map,
             invoked |-> TRUE]
       ELSE [raised |-> FALSE, msg |-> << >>, ret |-> gen.path,
             cache |-> IF use_cache THEN Put(cache_map, text, gen.path[1]) ELSE cache_map,
             invoked |-> TRUE]

\* TTSService.get_speech on a cache mapping; gen is what generate_speech(text)
\* gives if it is invoked
get_speech(cache_map, text, use_cache, gen) ==
  IF use_cache /\ text \in DOMAIN cache_map
  THEN [raised |-> FALSE, msg |-> << >>, ret |-> Some(cache_map[text]),
        cache |-> cache_map, invoked |-> FALSE]
  ELSE IF gen.raised
       THEN [raised |-> TRUE, msg |-> tts_error(gen.msg), ret |-> None,
             cache |-> cache_map, invoked |-> TRUE]
       ELSE [raised |-> FALSE, msg |-> << >>, ret |-> gen.path,
             cache |-> IF use_cache THEN Put(cache_map, text, gen.path[1]) ELSE cache_map,
             invoked |-> TRUE]

\* DetectionService.organize_services step 3: the try/except around get_speech
tts_step(caption_opt, gs) ==
  IF truthy(caption_opt) /\ ~gs.raised THEN gs.ret ELSE None

\* DetectionResponse fields the constructor call leaves out
DefaultField == None

\* ObjectDetectionController.detect_objects: the response of the try branch
success_response(caption_opt, speech_info, objs, min_conf) ==
  [success |-> TRUE, caption |-> caption_opt, speech |-> speech_info,
   objects |-> filtered_objects(objs, min_conf),
   total_objects |-> Len(filtered_objects(objs, min_conf)),
   original_count |-> Some(Len(objs)), error |-> DefaultField]

\* ObjectDetectionController.detect_objects: the response of the except branch
error_response(msg) ==
  [success |-> FALSE, caption |-> DefaultField, speech |-> DefaultField,
   objects |-> << >>, total_objects |-> 0,
   original_count |-> DefaultField, error |-> Some(msg)]

\* ------------------------------------------------------------------ state
VARIABLES
  api_key,        \* settings.OPENROUTER_API_KEY
  running,        \* the request whose coroutine holds the event loop, or 0
  pc,             \* per request: where its handler stands
  file_path,      \* per request: the router's local file_path (Optional)
  uploads,        \* upload files on storage, named by the request that wrote them
  min_confidence, \* per request: the confidence query parameter
  models_cache,   \* per request: YOLOModelManager._models_cache of its controller
  cache,          \* per request: TTSService.cache of its controller
  objects,        \* per request: organize_services' objects
  objects_desc,   \* per request: the argument handed to generate_caption (Optional)
  caption,        \* per request: organize_services' caption (Optional)
  speech_file,    \* per request: organize_services' speech_file (Optional)
  exc,            \* per request: message of the exception being propagated (Optional)
  result,         \* per request: the DetectionResponse returned (Optional)
  audio_files,    \* tts_output directory: path -> "complete" | "partial"
  next_id,        \* the next uuid4 value
  trace,          \* per request: what each pipeline step did (observation only)
  load_count,     \* YOLO(model_path) constructions performed so far
  loaded_ok,      \* model names a load has succeeded for, process-wide
  synth_count,    \* generate_speech invocations so far, process-wide
  synthesized,    \* texts generate_speech has returned a path for, process-wide
  svc_cache,      \* TTSService.cache of a service driven directly
  calls,          \* the calls made on that service, in order
  box,            \* the last box handed to the position rule (Optional)
  position,       \* the position _determine_position returned for it (Optional)
  t_pc,           \* per thread: its place inside TTSService.get_speech
  t_text,         \* per thread: the text argument of its call
  t_path,         \* per thread: get_speech's local file_path / return value (Optional)
  produced,       \* path -> text, for every path generate_speech has returned
  upload_ext,     \* per request: the extension save_upload_file computed (Optional)
  http_error,     \* per request: detail of the HTTPException raised (Optional)
  synth_log,      \* the calls made on a TTSModel driven directly, in order
  mgr_cache,      \* _models_cache of a YOLOModelManager driven directly
  loads           \* the load_model calls made on that manager, in order

vars == <<api_key, running, pc, file_path, uploads, min_confidence, models_cache,
          cache, objects, objects_desc, caption, speech_file, exc, result,
          audio_files, next_id, trace, load_count, loaded_ok, synth_count,
          synthesized, svc_cache, calls, box, position, t_pc, t_text, t_path,
          produced, upload_ext, http_error, synth_log, mgr_cache, loads>>

reqVars == <<pc, file_path, uploads, min_confidence, models_cache, cache, objects,
             objects_desc, caption, speech_file, exc, result, trace, running,
             upload_ext, http_error>>
ttsGhost == <<synth_count, synthesized>>
yoloGhost == <<load_count, loaded_ok>>
svcVars == <<svc_cache, calls>>
posVars == <<box, position>>
thrVars == <<t_pc, t_text, t_path, produced>>
drvVars == <<synth_log, mgr_cache, loads>>

NoTrace == [det |-> "none", cap |-> "none", tts |-> "none",
            remote |-> FALSE, vlm_raised |-> FALSE, logged |-> {}]

Init ==
  /\ api_key \in ApiKeys
  /\ running = 0
  /\ pc = [r \in Reqs |-> "idle"]
  /\ file_path = [r \in Reqs |-> None]
  /\ uploads = {}
  /\ min_confidence = [r \in Reqs |-> DefaultConfidence]
  /\ models_cache = [r \in Reqs |-> EmptyMap]
  /\ cache = [r \in Reqs |-> EmptyMap]
  /\ objects = [r \in Reqs |-> << >>]
  /\ objects_desc = [r \in Reqs |-> None]
  /\ caption = [r \in Reqs |-> None]
  /\ speech_file = [r \in Reqs |-> None]
  /\ exc = [r \in Reqs |-> None]
  /\ result = [r \in Reqs |-> None]
  /\ audio_files = EmptyMap
  /\ next_id = 1
  /\ trace = [r \in Reqs |-> NoTrace]
  /\ load_count = 0
  /\ loaded_ok = {}
  /\ synth_count = 0
  /\ synthesized = {}
  /\ svc_cache = EmptyMap
  /\ calls = << >>
  /\ box = None
  /\ position = None
  /\ t_pc = [t \in Threads |-> "idle"]
  /\ t_text = [t \in Threads |-> ""]
  /\ t_path = [t \in Threads |-> None]
  /\ produced = EmptyMap
  /\ upload_ext = [r \in Reqs |-> None]
  /\ http_error = [r \in Reqs |-> None]
  /\ synth_log = << >>
  /\ mgr_cache = EmptyMap
  /\ loads = << >>

\* --------------------------------------------------------- request handler
\* routers/data.py detect_objects up to the controller call: save_upload_file
\* and ObjectDetectionController() (a new DetectionService, YOLOModelManager and
\* TTSService with empty caches)
RouterReceive(r, Confidences) ==
  /\ pc[r] = "idle"
  /\ running = 0
  /\ \E filename \in Filenames, conf \in Confidences, write_ok \in BOOLEAN :
       LET saved == save_upload_file(filename, write_ok, r)
       IN  /\ upload_ext' = [upload_ext EXCEPT ![r] = Some(saved.ext)]
           /\ uploads' = IF saved.created THEN uploads \cup {r} ELSE uploads
           /\ IF saved.raised
              THEN \* except Exception -> HTTPException(500, detail=str(e));
                   \* file_path is still None in the finally block
                   /\ http_error' = [http_error EXCEPT ![r] = Some(saved.msg)]
                   /\ pc' = [pc EXCEPT ![r] = "closed"]
                   /\ UNCHANGED <<running, file_path, min_confidence, models_cache,
                                  cache>>
              ELSE /\ pc' = [pc EXCEPT ![r] = "detect"]
                   /\ running' = r
                   /\ file_path' = [file_path EXCEPT ![r] = saved.path]
                   /\ min_confidence' = [min_confidence EXCEPT ![r] = conf]
                   /\ models_cache' = [models_cache EXCEPT ![r] = EmptyMap]
                   /\ cache' = [cache EXCEPT ![r] = EmptyMap]
                   /\ UNCHANGED http_error
  /\ UNCHANGED <<api_key, objects, objects_desc, caption, speech_file, exc, result,
                 audio_files, next_id, trace, ttsGhost, yoloGhost, svcVars,
                 posVars, thrVars, drvVars>>

\* organize_services step 1: YOLOModelManager.detect_objects_yolo
YoloDetect(r, Outputs) ==
  /\ pc[r] = "detect"
  /\ running = r
  /\ \E outcome \in DetectOutcomes, inner \in ExcMessages, D \in Outputs :
       LET lm == load_model(models_cache[r], ModelName, outcome # "load_fail",
                            inner, load_count + 1)
       IN  /\ models_cache' = [models_cache EXCEPT ![r] = lm.models]
           /\ load_count' = IF lm.attempted THEN load_count + 1 ELSE load_count
           /\ loaded_ok' = IF lm.attempted /\ ~lm.raised
                           THEN loaded_ok \cup {ModelName} ELSE loaded_ok
           /\ IF lm.raised
              THEN /\ exc' = [exc EXCEPT ![r] = Some(lm.msg)]
                   /\ pc' = [pc EXCEPT ![r] = after_detect(TRUE)]
                   /\ trace' = [trace EXCEPT ![r].det = "load_fail",
                                              ![r].logged = @ \cup {"det"}]
                   /\ UNCHANGED objects
              ELSE IF outcome \in {"open_fail", "infer_fail"}
              THEN /\ exc' = [exc EXCEPT ![r] = Some(inner)]
                   /\ pc' = [pc EXCEPT ![r] = after_detect(TRUE)]
                   /\ trace' = [trace EXCEPT ![r].det = outcome]
                   /\ UNCHANGED objects
              ELSE /\ objects' = [objects EXCEPT ![r] = D]
                   /\ pc' = [pc EXCEPT ![r] = after_detect(FALSE)]
                   /\ trace' = [trace EXCEPT ![r].det = "ok"]
                   /\ UNCHANGED exc
  /\ UNCHANGED <<api_key, upload_ext, http_error,
                 running, file_path, uploads, min_confidence, cache,
                 objects_desc, caption, speech_file, result, audio_files, next_id,
                 ttsGhost, svcVars, posVars, thrVars, drvVars>>

\* organize_services step 2 up to the remote call: the credential gate, then
\* generate_caption testing the key, reading the image and dispatching
\* requests.post to a thread
CaptionStart(r) ==
  /\ pc[r] = "caption"
  /\ running = r
  /\ \E read_ok \in BOOLEAN :
       IF ~secret_truthy(api_key)
       THEN \* `if settings.OPENROUTER_API_KEY` is false: generate_caption not called
            /\ caption' = [caption EXCEPT ![r] = None]
            /\ trace' = [trace EXCEPT ![r].cap = "skipped"]
            /\ pc' = [pc EXCEPT ![r] = "speak"]
            /\ UNCHANGED <<objects_desc, running>>
       ELSE /\ objects_desc' = [objects_desc EXCEPT ![r] = Some(objects[r])]
            /\ IF ~secret_truthy(api_key)
               THEN \* generate_caption: `if not self.api_key`: warning, return None
                    /\ caption' = [caption EXCEPT ![r] = None]
                    /\ trace' = [trace EXCEPT ![r].cap = "skipped",
                                               ![r].logged = @ \cup {"cap"}]
                    /\ pc' = [pc EXCEPT ![r] = "speak"]
                    /\ UNCHANGED running
               ELSE IF ~read_ok
               THEN \* open(image_path) raises inside generate_caption's try
                    LET gc == generate_caption([kind |-> "unreadable", text |-> ""])
                    IN  /\ caption' = [caption EXCEPT ![r] =
                                         IF gc.raised THEN None ELSE gc.ret]
                        /\ trace' = [trace EXCEPT
                               ![r].cap = "failed",
                               ![r].vlm_raised = gc.raised,
                               ![r].logged = IF gc.logged \/ gc.raised
                                             THEN @ \cup {"cap"} ELSE @]
                        /\ pc' = [pc EXCEPT ![r] = "speak"]
                        /\ UNCHANGED running
               ELSE \* await asyncio.to_thread(requests.post, ...)
                    /\ pc' = [pc EXCEPT ![r] = "vlm_wait"]
                    /\ running' = loop_owner_during_post(r)
                    /\ trace' = [trace EXCEPT ![r].remote = TRUE]
                    /\ UNCHANGED caption
  /\ UNCHANGED <<api_key, upload_ext, http_error,
                 file_path, uploads, min_confidence, models_cache, cache,
                 objects, speech_file, exc, result, audio_files, next_id,
                 ttsGhost, yoloGhost, svcVars,
                 posVars, thrVars, drvVars>>

\* the remote call ends and generate_caption resumes on the event loop; a
\* raise out of generate_caption would be caught and logged by organize_services
VlmResponse(r) ==
  /\ pc[r] = "vlm_wait"
  /\ running = 0
  /\ \E resp \in VlmResponses :
       LET gc == generate_caption(resp)
       IN  /\ caption' = [caption EXCEPT ![r] = IF gc.raised THEN None ELSE gc.ret]
           /\ trace' = [trace EXCEPT
                 ![r].cap = IF resp.kind = "content" THEN "ok" ELSE "failed",
                 ![r].vlm_raised = gc.raised,
                 ![r].logged = IF gc.logged \/ gc.raised THEN @ \cup {"cap"} ELSE @]
  /\ running' = r
  /\ pc' = [pc EXCEPT ![r] = "speak"]
  /\ UNCHANGED <<api_key, upload_ext, http_error,
                 file_path, uploads, min_confidence, models_cache, cache,
                 objects, objects_desc, speech_file, exc, result, audio_files,
                 next_id, ttsGhost, yoloGhost, svcVars,
                 posVars, thrVars, drvVars>>

\* organize_services step 3: if caption: try get_speech(caption) except: log
SpeakStep(r) ==
  /\ pc[r] = "speak"
  /\ running = r
  /\ IF truthy(caption[r])
     THEN \E engine \in EngineOutcomes, inner \in ExcMessages :
            LET text == caption[r][1]
                miss == text \notin DOMAIN cache[r]
                gen == generate_speech(text, engine, next_id, inner)
                gs == get_speech(cache[r], text, TRUE, gen)
            IN  /\ cache' = [cache EXCEPT ![r] = gs.cache]
                /\ speech_file' = [speech_file EXCEPT ![r] = tts_step(caption[r], gs)]
                /\ next_id' = IF gs.invoked /\ gen.named THEN next_id + 1 ELSE next_id
                /\ audio_files' = IF gs.invoked /\ gen.file # None
                                  THEN Put(audio_files, next_id, gen.file[1])
                                  ELSE audio_files
                /\ synth_count' = IF gs.invoked THEN synth_count + 1 ELSE synth_count
                /\ synthesized' = IF gs.invoked /\ engine = "ok"
                                  THEN synthesized \cup {text} ELSE synthesized
                /\ trace' = [trace EXCEPT
                      ![r].tts = IF miss /\ (engine # "ok" \/ text = "")
                                 THEN "failed" ELSE "ok",
                      ![r].logged = IF gs.raised THEN @ \cup {"tts"} ELSE @]
     ELSE /\ speech_file' = [speech_file EXCEPT ![r] = None]
          /\ trace' = [trace EXCEPT ![r].tts = "not_attempted"]
          /\ UNCHANGED <<cache, next_id, audio_files, ttsGhost>>
  /\ pc' = [pc EXCEPT ![r] = "assemble"]
  /\ UNCHANGED <<api_key, upload_ext, http_error,
                 running, file_path, uploads, min_confidence, models_cache,
                 objects, objects_desc, caption, exc, result, yoloGhost, svcVars,
                 posVars, thrVars, drvVars>>

\* controller: the filter, then `if speech_file and os.path.exists(speech_file)`
Assemble(r) ==
  /\ pc[r] = "assemble"
  /\ running = r
  /\ IF speech_file[r] # None /\ speech_file[r][1] \in DOMAIN audio_files
     THEN /\ pc' = [pc EXCEPT ![r] = "getsize"]
          /\ UNCHANGED result
     ELSE /\ result' = [result EXCEPT ![r] =
                 Some(success_response(caption[r], None, objects[r], min_confidence[r]))]
          /\ pc' = [pc EXCEPT ![r] = "respond"]
  /\ UNCHANGED <<api_key, upload_ext, http_error,
                 running, file_path, uploads, min_confidence, models_cache,
                 cache, objects, objects_desc, caption, speech_file, exc,
                 audio_files, next_id, trace, ttsGhost, yoloGhost, svcVars,
                 posVars, thrVars, drvVars>>

\* controller: os.path.getsize(speech_file) inside the try, then the response
GetSize(r) ==
  /\ pc[r] = "getsize"
  /\ running = r
  /\ LET p == speech_file[r][1]
     IN  IF p \in DOMAIN audio_files
         THEN /\ result' = [result EXCEPT ![r] =
                    Some(success_response(caption[r],
                           Some([file_path |-> p, file_size |-> audio_files[p]]),
                           objects[r], min_confidence[r]))]
              /\ pc' = [pc EXCEPT ![r] = "respond"]
              /\ UNCHANGED exc
         ELSE \* FileNotFoundError from os.path.getsize
              /\ exc' = [exc EXCEPT ![r] = Some(<<"[Errno 2] No such file or directory">>)]
              /\ pc' = [pc EXCEPT ![r] = "except"]
              /\ UNCHANGED result
  /\ UNCHANGED <<api_key, upload_ext, http_error,
                 running, file_path, uploads, min_confidence, models_cache,
                 cache, objects, objects_desc, caption, speech_file, audio_files,
                 next_id, trace, ttsGhost, yoloGhost, svcVars,
                 posVars, thrVars, drvVars>>

\* controller: except Exception as e -> DetectionResponse(success=False, ...)
ControllerExcept(r) ==
  /\ pc[r] = "except"
  /\ running = r
  /\ result' = [result EXCEPT ![r] = Some(error_response(exc[r][1]))]
  /\ trace' = [trace EXCEPT ![r].logged =
                 @ \cup {IF trace[r].det = "ok" THEN "assemble" ELSE "det"}]
  /\ pc' = [pc EXCEPT ![r] = "respond"]
  /\ UNCHANGED <<api_key, upload_ext, http_error,
                 running, file_path, uploads, min_confidence, models_cache,
                 cache, objects, objects_desc, caption, speech_file, exc,
                 audio_files, next_id, ttsGhost, yoloGhost, svcVars,
                 posVars, thrVars, drvVars>>

\* router: return result; finally cleanup_file(file_path). The controller and
\* its services are dropped with the request.
RouterFinally(r) ==
  /\ pc[r] = "respond"
  /\ running = r
  /\ \E remove_ok \in BOOLEAN :
       uploads' = IF file_path[r] # None /\ r \in uploads /\ remove_ok
                  THEN uploads \ {r} ELSE uploads
  /\ pc' = [pc EXCEPT ![r] = "closed"]
  /\ running' = 0
  /\ file_path' = [file_path EXCEPT ![r] = None]
  /\ models_cache' = [models_cache EXCEPT ![r] = EmptyMap]
  /\ cache' = [cache EXCEPT ![r] = EmptyMap]
  /\ objects' = [objects EXCEPT ![r] = << >>]
  /\ objects_desc' = [objects_desc EXCEPT ![r] = None]
  /\ caption' = [caption EXCEPT ![r] = None]
  /\ speech_file' = [speech_file EXCEPT ![r] = None]
  /\ exc' = [exc EXCEPT ![r] = None]
  /\ result' = [result EXCEPT ![r] = None]
  /\ trace' = [trace EXCEPT ![r] = NoTrace]
  /\ min_confidence' = [min_confidence EXCEPT ![r] = DefaultConfidence]
  /\ UNCHANGED <<api_key, upload_ext, http_error,
                 audio_files, next_id, ttsGhost,
                 yoloGhost, svcVars,
                 posVars, thrVars, drvVars>>

\* the tts_output directory is ordinary storage: a file in it can be removed
\* from outside the process at any time
RemoveAudioFile ==
  /\ \E p \in DOMAIN audio_files : audio_files' = Remove(audio_files, p)
  /\ UNCHANGED <<api_key, reqVars, next_id, ttsGhost, yoloGhost, svcVars,
                 posVars, thrVars, drvVars>>

Next ==
  \/ \E r \in Reqs : RouterReceive(r, {DefaultConfidence})
  \/ \E r \in Reqs : YoloDetect(r, SingleBoxOutputs)
  \/ \E r \in Reqs : CaptionStart(r)
  \/ \E r \in Reqs : VlmResponse(r)
  \/ \E r \in Reqs : SpeakStep(r)
  \/ \E r \in Reqs : Assemble(r)
  \/ \E r \in Reqs : GetSize(r)
  \/ \E r \in Reqs : ControllerExcept(r)
  \/ \E r \in Reqs : RouterFinally(r)
  \/ RemoveAudioFile

\* NumReqs requests served by one process, each with the default confidence
\* and an image with at most one box
Spec == Init /\ [][Next]_vars

NextRequest ==
  \/ RouterReceive(1, Thresholds)
  \/ YoloDetect(1, DetectorOutputs)
  \/ CaptionStart(1)
  \/ VlmResponse(1)
  \/ SpeakStep(1)
  \/ Assemble(1)
  \/ GetSize(1)
  \/ ControllerExcept(1)
  \/ RouterFinally(1)
  \/ RemoveAudioFile

\* one request, any threshold, images with up to MaxObjects boxes
SpecRequest == Init /\ [][NextRequest]_vars

\* ------------------------------------------------- TTSService driven directly
clear_cache_unlinking(cache_map, files) ==
  [cache |-> EmptyMap,
   files |-> [p \in DOMAIN files \ {cache_map[k] : k \in DOMAIN cache_map} |-> files[p]]]

\* TTSService.clear_cache: self.cache.clear(), and nothing done to the files
clear_cache(cache_map, files) == [cache |-> EmptyMap, files |-> files]

\* failed: generate_speech was invoked by the call and raised
CallRecord(op, text, use_cache, gs, failed, before, after) ==
  [op |-> op, text |-> text, use_cache |-> use_cache, invoked |-> gs.invoked,
   failed |-> failed, raised |-> gs.raised, ret |-> gs.ret, before |-> before,
   after |-> after]

\* TTSService.get_speech(text, use_cache) called on one service
ServiceGetSpeech ==
  /\ Len(calls) < MaxCalls
  /\ \E text \in Texts, use_cache \in BOOLEAN, engine \in EngineOutcomes,
        inner \in ExcMessages :
       LET gen == generate_speech(text, engine, next_id, inner)
           gs == get_speech(svc_cache, text, use_cache, gen)
       IN  /\ svc_cache' = gs.cache
           /\ next_id' = IF gs.invoked /\ gen.named THEN next_id + 1 ELSE next_id
           /\ audio_files' = IF gs.invoked /\ gen.file # None
                             THEN Put(audio_files, next_id, gen.file[1])
                             ELSE audio_files
           /\ synth_count' = IF gs.invoked THEN synth_count + 1 ELSE synth_count
           /\ synthesized' = IF gs.invoked /\ text # "" /\ engine = "ok"
                             THEN synthesized \cup {text} ELSE synthesized
           /\ calls' = Append(calls,
                         CallRecord("get_speech", text, use_cache, gs,
                                    gs.invoked /\ gen.raised, svc_cache, gs.cache))
  /\ UNCHANGED <<api_key, reqVars, yoloGhost, posVars, thrVars, drvVars>>

\* TTSService.clear_cache called on that service
ServiceClearCache ==
  /\ Len(calls) < MaxCalls
  /\ LET cc == clear_cache(svc_cache, audio_files)
     IN  /\ svc_cache' = cc.cache
         /\ audio_files' = cc.files
         /\ calls' = Append(calls,
                       CallRecord("clear_cache", "", FALSE,
                                  [invoked |-> FALSE, raised |-> FALSE, ret |-> None],
                                  FALSE,
                                  svc_cache, cc.cache))
  /\ UNCHANGED <<api_key, reqVars, next_id, ttsGhost, yoloGhost, posVars, thrVars, drvVars>>

NextTTS ==
  \/ ServiceGetSpeech
  \/ ServiceClearCache

\* one TTSService receiving up to MaxCalls calls
SpecTTS == Init /\ [][NextTTS]_vars

\* ------------------------------- one TTSService called from several threads
\* get_speech(text) entered by thread t: `if use_cache and text in self.cache`
ThreadCall(t) ==
  /\ t_pc[t] = "idle"
  /\ \E text \in Texts :
       /\ t_text' = [t_text EXCEPT ![t] = text]
       /\ t_pc' = [t_pc EXCEPT ![t] =
                     IF text \in DOMAIN svc_cache THEN "hit" ELSE "generate"]
  /\ UNCHANGED <<api_key, reqVars, audio_files, next_id, ttsGhost, yoloGhost,
                 svcVars, posVars, t_path, produced,
                 drvVars>>

\* `return self.cache[text]`
ThreadHit(t) ==
  /\ t_pc[t] = "hit"
  /\ t_path' = [t_path EXCEPT ![t] = Some(svc_cache[t_text[t]])]
  /\ t_pc' = [t_pc EXCEPT ![t] = "done"]
  /\ UNCHANGED <<api_key, reqVars, audio_files, next_id, ttsGhost, yoloGhost,
                 svcVars, posVars, t_text, produced,
                 drvVars>>

\* `file_path = self.tts.generate_speech(text)`; a raise leaves get_speech
\* as RuntimeError
ThreadGenerate(t) ==
  /\ t_pc[t] = "generate"
  /\ \E engine \in EngineOutcomes, inner \in ExcMessages :
       LET gen == generate_speech(t_text[t], engine, next_id, inner)
       IN  /\ next_id' = IF gen.named THEN next_id + 1 ELSE next_id
           /\ audio_files' = IF gen.file # None
                             THEN Put(audio_files, next_id, gen.file[1])
                             ELSE audio_files
           /\ synth_count' = synth_count + 1
           /\ synthesized' = IF gen.raised THEN synthesized
                             ELSE synthesized \cup {t_text[t]}
           /\ produced' = IF gen.raised THEN produced
                          ELSE Put(produced, gen.path[1], t_text[t])
           /\ t_path' = [t_path EXCEPT ![t] = gen.path]
           /\ t_pc' = [t_pc EXCEPT ![t] = IF gen.raised THEN "done" ELSE "store"]
  /\ UNCHANGED <<api_key, reqVars, yoloGhost, svcVars, posVars, t_text,
                 drvVars>>

\* `self.cache[text] = file_path`, then `return file_path`
ThreadStore(t) ==
  /\ t_pc[t] = "store"
  /\ svc_cache' = Put(svc_cache, t_text[t], t_path[t][1])
  /\ t_pc' = [t_pc EXCEPT ![t] = "done"]
  /\ UNCHANGED <<api_key, reqVars, audio_files, next_id, ttsGhost, yoloGhost,
                 calls, posVars, t_text, t_path, produced,
                 drvVars>>

NextThreads ==
  \/ \E t \in Threads : ThreadCall(t)
  \/ \E t \in Threads : ThreadHit(t)
  \/ \E t \in Threads : ThreadGenerate(t)
  \/ \E t \in Threads : ThreadStore(t)

\* NumThreads threads, each making one get_speech call on the same service,
\* interleaved between any two of its statements
SpecThreads == Init /\ [][NextThreads]_vars

\* ------------------------------------------- YOLOModelManager driven directly
\* detect_objects_yolo's `model = self.load_model()`, or load_model(model_name),
\* called on one manager
ManagerLoad ==
  /\ Len(loads) < MaxCalls
  /\ \E name \in ModelNames, load_ok \in BOOLEAN, inner \in ExcMessages :
       LET lm == load_model(mgr_cache, name, load_ok, inner, load_count + 1)
       IN  /\ mgr_cache' = lm.models
           /\ load_count' = IF lm.attempted THEN load_count + 1 ELSE load_count
           /\ loaded_ok' = IF lm.attempted /\ ~lm.raised
                           THEN loaded_ok \cup {name} ELSE loaded_ok
           /\ loads' = Append(loads,
                 [name |-> name, attempted |-> lm.attempted,
                  failed |-> lm.attempted /\ ~load_ok, inner |-> inner,
                  raised |-> lm.raised, msg |-> lm.msg, model |-> lm.model,
                  before |-> mgr_cache, after |-> lm.models])
  /\ UNCHANGED <<api_key, reqVars, audio_files, next_id, ttsGhost, svcVars,
                 posVars, thrVars, synth_log>>

NextLoads == ManagerLoad

\* one YOLOModelManager receiving up to MaxCalls load_model calls
SpecLoads == Init /\ [][NextLoads]_vars

\* --------------------------------------------------- TTSModel driven directly
\* TTSModel.generate_speech(text) called on one model
Synthesize ==
  /\ Len(synth_log) < MaxCalls
  /\ \E text \in Texts, engine \in EngineOutcomes, inner \in ExcMessages :
       LET gen == generate_speech(text, engine, next_id, inner)
           files == IF gen.file # None
                    THEN Put(audio_files, next_id, gen.file[1]) ELSE audio_files
       IN  /\ next_id' = IF gen.named THEN next_id + 1 ELSE next_id
           /\ audio_files' = files
           /\ synth_count' = synth_count + 1
           /\ synthesized' = IF gen.raised THEN synthesized
                             ELSE synthesized \cup {text}
           /\ synth_log' = Append(synth_log,
                 [text |-> text, raised |-> gen.raised, msg |-> gen.msg,
                  path |-> gen.path, named |-> gen.named,
                  engine_used |-> gen.engine_used, wrote |-> gen.file # None,
                  id |-> next_id, before |-> audio_files, after |-> files])
  /\ UNCHANGED <<api_key, reqVars, yoloGhost, svcVars, posVars, thrVars,
                 mgr_cache, loads>>

NextSynth ==
  \/ Synthesize
  \/ RemoveAudioFile

\* one TTSModel receiving up to MaxCalls calls, its output directory open to
\* removals from outside
SpecSynth == Init /\ [][NextSynth]_vars

\* ------------------------------------------- the position rule on its own
\* the body of detect_objects_yolo's loop for one box of an image
DeterminePosition ==
  /\ \E b \in Boxes :
       /\ b.x_min <= b.x_max
       /\ b.x_max <= b.img_width
       /\ box' = Some(b)
       /\ position' = Some(determine_position(x_center_doubled(b.x_min, b.x_max),
                                              b.img_width))
  /\ UNCHANGED <<api_key, reqVars, audio_files, next_id, ttsGhost, yoloGhost,
                 svcVars, thrVars, drvVars>>

NextPosition == DeterminePosition

\* boxes of images up to MaxWidth pixels wide, classified one after another
SpecPosition == Init /\ [][NextPosition]_vars

\* =================================================================== claims
DetectionFailures == {"load_fail", "open_fail", "infer_fail"}
Answered(r) == result[r] # None
Res(r) == result[r][1]
Confidences(objs) == [i \in 1..Len(objs) |-> objs[i].confidence]

\* out is D restricted to the elements with confidence >= t, in D's order:
\* the kept positions of D, taken in increasing order, spell out
IsFilterOf(out, D, t) ==
  LET kept == {k \in 1..Len(D) : D[k].confidence >= t}
  IN  /\ Len(out) = Cardinality(kept)
      /\ \E idx \in [1..Len(out) -> 1..Len(D)] :
           /\ \A i \in 1..Len(out) : idx[i] \in kept /\ out[i] = D[idx[i]]
           /\ \A i, j \in 1..Len(out) : i < j => idx[i] < idx[j]

\* C1: whenever the detection step of a request fails (model load, unreadable
\* image or inference), the result has success=false, objects=[], caption
\* absent, speech absent and a non-empty error message.
C1_DetectionFailureResult ==
  \A r \in Reqs :
    (Answered(r) /\ trace[r].det \in DetectionFailures) =>
      /\ Res(r).success = FALSE
      /\ Res(r).objects = << >>
      /\ Res(r).caption = None
      /\ Res(r).speech = None
      /\ Res(r).error # None
      /\ Res(r).error[1] # << >>

\* C2: the orchestrator always returns a structured result whose success flag
\* is false if and only if the detection step failed; no caption or speech
\* failure (reading the audio file's size included) gives success=false.
C2_FailureIffDetectionFailed ==
  \A r \in Reqs :
    Answered(r) =>
      ((Res(r).success = FALSE) <=> (trace[r].det \in DetectionFailures))

\* C3: in a successful result the objects are exactly the detector's objects
\* with confidence >= threshold (equality kept), in the detector's order;
\* original_count is the detector's count and total_objects the returned count.
C3_FilterExact ==
  \A r \in Reqs :
    (Answered(r) /\ Res(r).success) =>
      /\ IsFilterOf(Res(r).objects, objects[r], min_confidence[r])
      /\ Res(r).original_count = Some(Len(objects[r]))
      /\ Res(r).total_objects = Len(Res(r).objects)
      /\ Res(r).original_count[1] >= Res(r).total_objects
      /\ \A i \in 1..Len(Res(r).objects) :
           Res(r).objects[i].confidence >= min_confidence[r]

\* C3 witness: confidences [0.9, 0.3, 0.6] at threshold 0.5 returned as 0.9, 0.6
C3_Witness ==
  \E r \in Reqs :
    /\ Answered(r) /\ Res(r).success
    /\ Confidences(objects[r]) = <<9, 3, 6>>
    /\ min_confidence[r] = 5
    /\ Confidences(Res(r).objects) = <<9, 6>>
    /\ Res(r).original_count = Some(3)
    /\ Res(r).total_objects = 2

\* C4: every object in the list handed to the captioner has confidence >= the
\* request's threshold.
C4_CaptionerGetsFilteredList ==
  \A r \in Reqs :
    objects_desc[r] # None =>
      \A i \in 1..Len(objects_desc[r][1]) :
        objects_desc[r][1][i].confidence >= min_confidence[r]

\* C5: detection succeeded with an object at or above the threshold and the
\* captioning step failed: success=true, objects non-empty, caption and speech
\* absent, and the speech step was not attempted.
C5_CaptionFailureDegrades ==
  \A r \in Reqs :
    ( /\ Answered(r)
      /\ trace[r].det = "ok"
      /\ trace[r].cap = "failed"
      /\ \E i \in 1..Len(objects[r]) : objects[r][i].confidence >= min_confidence[r] )
    => /\ Res(r).success
       /\ Res(r).objects # << >>
       /\ Res(r).caption = None
       /\ Res(r).speech = None
       /\ trace[r].tts = "not_attempted"
       /\ speech_file[r] = None

C5_Witness ==
  \E r \in Reqs :
    /\ Answered(r) /\ trace[r].det = "ok" /\ trace[r].cap = "failed"
    /\ objects_desc[r] # None
    /\ \E i \in 1..Len(objects[r]) : objects[r][i].confidence >= min_confidence[r]
    /\ Res(r).success /\ Len(Res(r).objects) >= 1

\* C6: detection and captioning succeeded and the speech step failed: the
\* result has success=true, the filtered objects, the caption, and no speech.
C6_SpeechFailureDegrades ==
  \A r \in Reqs :
    ( /\ Answered(r)
      /\ trace[r].det = "ok"
      /\ trace[r].cap = "ok"
      /\ trace[r].tts = "failed" )
    => /\ Res(r).success
       /\ IsFilterOf(Res(r).objects, objects[r], min_confidence[r])
       /\ Res(r).caption = caption[r]
       /\ truthy(Res(r).caption)
       /\ Res(r).speech = None

C6_Witness ==
  \E r \in Reqs :
    /\ Answered(r) /\ trace[r].det = "ok" /\ trace[r].cap = "ok"
    /\ trace[r].tts = "failed"
    /\ Res(r).success /\ Res(r).caption = Some("a") /\ Res(r).objects # << >>

\* two get_speech(text, use_cache=True) calls on the same service, the first
\* before the second, with no clear_cache between them
CachedPair(i, j) ==
  /\ i < j
  /\ calls[i].op = "get_speech" /\ calls[j].op = "get_speech"
  /\ calls[i].text = calls[j].text
  /\ calls[i].use_cache /\ calls[j].use_cache
  /\ \A k \in (i + 1)..(j - 1) : calls[k].op # "clear_cache"

Count(b) == IF b THEN 1 ELSE 0

\* C7 as stated: for every text, two get_speech(text) calls with use_cache=True
\* invoke the synthesizer at most once in total and return the identical path.
C7_IdempotentForEveryText ==
  \A i, j \in 1..Len(calls) :
    CachedPair(i, j) =>
      /\ Count(calls[i].invoked) + Count(calls[j].invoked) <= 1
      /\ ~calls[i].raised /\ ~calls[j].raised
      /\ calls[i].ret = calls[j].ret

\* C7 amended: if the first of the two calls returns a path, the second does
\* not invoke the synthesizer and returns the identical path (at most one
\* invocation in total).
C7_IdempotentAfterSuccess ==
  \A i, j \in 1..Len(calls) :
    (CachedPair(i, j) /\ ~calls[i].raised) =>
      /\ ~calls[j].invoked
      /\ Count(calls[i].invoked) + Count(calls[j].invoked) <= 1
      /\ ~calls[j].raised
      /\ calls[j].ret = calls[i].ret
      /\ calls[j].ret # None

C7_Witness ==
  \E i, j \in 1..Len(calls) :
    /\ CachedPair(i, j) /\ j = i + 1
    /\ calls[i].invoked /\ ~calls[i].raised
    /\ ~calls[j].invoked /\ calls[j].ret = calls[i].ret

\* C8: get_speech(text, use_cache=False) always invokes the synthesizer and
\* leaves the cache mapping exactly as it was.
C8_BypassLeavesCache ==
  \A i \in 1..Len(calls) :
    (calls[i].op = "get_speech" /\ ~calls[i].use_cache) =>
      /\ calls[i].invoked
      /\ calls[i].after = calls[i].before

\* C8 witness: a bypass call for a text that is already cached synthesizes anew
C8_Witness ==
  \E i \in 1..Len(calls) :
    /\ calls[i].op = "get_speech" /\ ~calls[i].use_cache
    /\ calls[i].text \in DOMAIN calls[i].before
    /\ calls[i].invoked /\ ~calls[i].raised
    /\ calls[i].ret # Some(calls[i].before[calls[i].text])
    /\ calls[i].after = calls[i].before

\* C9: a caption successfully synthesized for an earlier request is not
\* synthesized again for a later request: the later speech step returns a path
\* without invoking the synthesizer.
C9_NoResynthesisAcrossRequests ==
  [][ \A r \in Reqs :
        ( /\ pc[r] = "speak" /\ pc'[r] = "assemble"
          /\ truthy(caption[r])
          /\ caption[r][1] \in synthesized )
        => (synth_count' = synth_count /\ speech_file'[r] # None) ]_vars

\* C10: once the detection model has been loaded successfully, no later detect
\* call of any request performs a model load.
C10_NoReloadAcrossRequests ==
  [][ (ModelName \in loaded_ok) => (load_count' = load_count) ]_vars

\* C11: concurrent requests never perform more than one load of the model: no
\* two requests in flight hold handles that come from different loads.
C11_AtMostOneLoadPerName ==
  \A r1, r2 \in Reqs :
    (ModelName \in DOMAIN models_cache[r1] /\ ModelName \in DOMAIN models_cache[r2])
      => models_cache[r1][ModelName] = models_cache[r2][ModelName]

\* C12: once a request's handler has returned, whatever step failed, no
\* upload file written for that request remains on storage.
C12_NoUploadLeftAfterReturn ==
  \A r \in Reqs : pc[r] = "closed" => r \notin uploads

\* C13: the position of a box with centre x in an image of width W is left
\* exactly when x < W/3, right exactly when x > 2W/3 and center otherwise; the
\* boundaries x = W/3 and x = 2W/3 are center, and the position is exactly one
\* of the three. (x2 is 2x, so x < W/3 reads 3*x2 < 2*W.)
C13_PositionClassification ==
  box # None =>
    LET x2 == box[1].x_min + box[1].x_max
        W == box[1].img_width
        pos == position[1]
    IN  /\ pos \in {"left", "center", "right"}
        /\ (pos = "left") <=> (3 * x2 < 2 * W)
        /\ (pos = "right") <=> (3 * x2 > 4 * W)
        /\ (pos = "center") <=> (2 * W <= 3 * x2 /\ 3 * x2 <= 4 * W)
        /\ (3 * x2 = 2 * W \/ 3 * x2 = 4 * W) => pos = "center"

\* a box whose centre is exactly a third of the width has been classified
C13_Witness ==
  /\ box # None
  /\ 3 * (box[1].x_min + box[1].x_max) = 2 * box[1].img_width
  /\ position = Some("center")

\* C14: with no credential configured, a request makes no remote call, its
\* caption is absent and its speech step is skipped; a missing credential is
\* no error, so the request whose detection succeeded ends with success=true.
C14_CredentialGating ==
  api_key = "" =>
    \A r \in Reqs :
      /\ pc[r] # "vlm_wait"
      /\ ~trace[r].remote
      /\ objects_desc[r] = None
      /\ caption[r] = None
      /\ speech_file[r] = None
      /\ trace[r].tts \in {"none", "not_attempted"}
      /\ trace[r].cap \in {"none", "skipped"}
      /\ (Answered(r) /\ trace[r].det = "ok") =>
           /\ Res(r).success = TRUE
           /\ Res(r).caption = None
           /\ Res(r).speech = None
           /\ Res(r).error = None

\* a request served without a credential has been answered with success
C14_Witness ==
  /\ api_key = ""
  /\ \E r \in Reqs :
       /\ Answered(r)
       /\ trace[r].cap = "skipped"
       /\ trace[r].tts = "not_attempted"
       /\ Res(r).success = TRUE

\* C15: the speech step is attempted only for a caption that is present and
\* non-empty, so every result that carries speech carries a non-empty caption.
C15_SpeechOnlyForCaption ==
  \A r \in Reqs :
    /\ trace[r].tts \in {"ok", "failed"} =>
         (caption[r] # None /\ caption[r][1] # "")
    /\ (caption[r] = None \/ caption[r] = Some("")) =>
         (speech_file[r] = None /\ cache[r] = EmptyMap)
    /\ (Answered(r) /\ Res(r).speech # None) =>
         (Res(r).caption # None /\ Res(r).caption[1] # "")

\* a result carrying speech has been returned
C15_Witness ==
  \E r \in Reqs :
    /\ Answered(r)
    /\ Res(r).speech # None
    /\ Res(r).caption = Some("a")

\* C16: whatever goes wrong in the captioner (unreadable image, transport
\* exception, non-2xx status, response without usable choices), it raises
\* nothing to its caller and returns an absent caption.
C16_CaptionerNeverRaises ==
  \A r \in Reqs :
    trace[r].cap = "failed" => (~trace[r].vlm_raised /\ caption[r] = None)

\* a remote call has failed and the request moved on to the speech step
C16_Witness ==
  \E r \in Reqs :
    /\ trace[r].cap = "failed"
    /\ trace[r].remote
    /\ "cap" \in trace[r].logged
    /\ pc[r] = "speak"

\* C17: every captioning failure (missing credential included), every speech
\* failure and every detection failure of a request has left a log record by
\* the time the result is returned.
C17_EveryFailureLogged ==
  \A r \in Reqs :
    Answered(r) =>
      /\ trace[r].cap \in {"failed", "skipped"} => "cap" \in trace[r].logged
      /\ trace[r].tts = "failed" => "tts" \in trace[r].logged
      /\ trace[r].det \in DetectionFailures => "det" \in trace[r].logged

\* C18: a request whose remote captioning call is outstanding does not own the
\* event loop, and a request that has not started can be taken on meanwhile.
C18_RemoteCallReleasesLoop ==
  \A r \in Reqs :
    pc[r] = "vlm_wait" =>
      /\ running # r
      /\ \A q \in Reqs :
           (running = 0 /\ pc[q] = "idle") => ENABLED RouterReceive(q, {DefaultConfidence})

\* while one request waits for the remote call, another one is past detection
C18_Witness ==
  \E r, q \in Reqs :
    /\ r # q
    /\ pc[r] = "vlm_wait"
    /\ running = q
    /\ pc[q] \in {"caption", "speak", "assemble", "respond"}

\* C19: however concurrent get_speech calls on one cache interleave, every
\* entry maps its text to the complete file some generate_speech call produced
\* for that very text; a call that stored its path leaves an entry for its text
\* behind (calls for other texts do not remove it), and when two calls raced on
\* one text the entry is the path of one of them.
C19_EntriesAreProducedPaths ==
  /\ \A k \in DOMAIN svc_cache :
       /\ svc_cache[k] \in DOMAIN produced
       /\ produced[svc_cache[k]] = k
       /\ svc_cache[k] \in DOMAIN audio_files
       /\ audio_files[svc_cache[k]] = "complete"
       /\ \E t \in Threads : t_text[t] = k /\ t_path[t] = Some(svc_cache[k])
  /\ \A t \in Threads :
       (t_pc[t] = "done" /\ t_path[t] # None) => t_text[t] \in DOMAIN svc_cache

\* two calls for the same text both synthesized, and both have stored
C19_Witness ==
  \E t, u \in Threads :
    /\ t # u
    /\ t_pc[t] = "done" /\ t_pc[u] = "done"
    /\ t_text[t] = t_text[u]
    /\ t_path[t] # None /\ t_path[u] # None
    /\ t_path[t] # t_path[u]
    /\ svc_cache[t_text[t]] = t_path[u][1]

\* C20: clear_cache leaves the cache empty; no call on the service removes or
\* changes an audio file; and the first get_speech after a clear_cache for a
\* text that was cached before it runs the synthesizer again.
C20_ClearCacheKeepsFiles ==
  [][ /\ \A p \in DOMAIN audio_files :
           p \in DOMAIN audio_files' /\ audio_files'[p] = audio_files[p]
      /\ \A i \in 1..Len(calls') :
           calls'[i].op = "clear_cache" => calls'[i].after = EmptyMap
      /\ (Len(calls') > Len(calls) /\ calls'[Len(calls')].op = "clear_cache")
           => svc_cache' = EmptyMap
      /\ \A i, j \in 1..Len(calls') :
           ( /\ i < j
             /\ calls'[i].op = "clear_cache"
             /\ calls'[j].op = "get_speech"
             /\ calls'[j].text \in DOMAIN calls'[i].before
             /\ \A k \in (i + 1)..(j - 1) :
                  ~(calls'[k].op = "get_speech" /\ calls'[k].text = calls'[j].text) )
           => calls'[j].invoked
    ]_vars

\* a text was cached, the cache was cleared, the text was asked for again and
\* synthesized again, and the file cached first is still there
C20_Witness ==
  \E i \in 1..Len(calls) :
    /\ i < Len(calls)
    /\ calls[i].op = "clear_cache"
    /\ calls[i + 1].op = "get_speech"
    /\ calls[i + 1].use_cache
    /\ calls[i + 1].text \in DOMAIN calls[i].before
    /\ calls[i + 1].invoked
    /\ ~calls[i + 1].raised
    /\ calls[i].before[calls[i + 1].text] \in DOMAIN audio_files
    /\ svc_cache[calls[i + 1].text] # calls[i].before[calls[i + 1].text]

\* C21: within a request the steps run in the order detect, caption, speak,
\* each one starting after the one before it has finished and each at most
\* once: the detector runs only while no step has run, the captioner only
\* after a successful detection and before any caption or speech outcome, the
\* speech step only after the caption step and before any speech outcome; after
\* a detection failure neither the captioner nor the speech step runs.
C21_StepsInOrderOnce ==
  [][ \A r \in Reqs :
        /\ (pc[r] = "detect" /\ pc'[r] # "detect") => trace[r] = NoTrace
        /\ ((pc[r] = "caption" /\ pc'[r] # "caption") \/ trace'[r].cap # trace[r].cap)
             => ( \/ trace'[r] = NoTrace
                  \/ /\ trace[r].det = "ok"
                     /\ trace[r].cap = "none"
                     /\ trace[r].tts = "none" )
        /\ ((pc[r] = "speak" /\ pc'[r] # "speak") \/ trace'[r].tts # trace[r].tts)
             => ( \/ trace'[r] = NoTrace
                  \/ /\ trace[r].det = "ok"
                     /\ trace[r].cap \in {"ok", "failed", "skipped"}
                     /\ trace[r].tts = "none" )
        /\ trace'[r].det \in DetectionFailures =>
             /\ trace'[r].cap = "none"
             /\ trace'[r].tts = "none"
             /\ ~trace'[r].remote
             /\ objects_desc'[r] = None
             /\ pc'[r] \notin {"caption", "vlm_wait", "speak", "assemble", "getsize"}
    ]_vars

\* a request has run all three steps
C21_Witness ==
  \E r \in Reqs :
    /\ trace[r].det = "ok"
    /\ trace[r].cap = "ok"
    /\ trace[r].tts = "ok"
    /\ pc[r] = "assemble"

\* C23: an upload whose extension is not allowed is answered with an error
\* that names the extension, in the very step that receives it: no upload
\* file is written, and no detector, captioner or synthesizer runs for that
\* request, then or later.
C23_RejectedBeforeAnyWork ==
  [][ \A r \in Reqs :
        /\ ( /\ upload_ext[r] = None
             /\ upload_ext'[r] # None
             /\ upload_ext'[r][1] \notin AllowedExtensions )
           => /\ http_error'[r] # None
              /\ http_error'[r][1] # << >>
              /\ http_error'[r][1][Len(http_error'[r][1])] = upload_ext'[r][1]
              /\ uploads' = uploads
              /\ audio_files' = audio_files
              /\ load_count' = load_count
              /\ synth_count' = synth_count
              /\ trace' = trace
              /\ pc'[r] = "closed"
        /\ (upload_ext'[r] # None /\ upload_ext'[r][1] \notin AllowedExtensions)
           => /\ pc'[r] = "closed"
              /\ r \notin uploads'
              /\ file_path'[r] = None
              /\ trace'[r] = NoTrace
              /\ objects_desc'[r] = None
              /\ result'[r] = None
    ]_vars

\* an upload named tool.exe has been rejected
C23_Witness ==
  \E r \in Reqs :
    /\ upload_ext[r] = Some(".exe")
    /\ http_error[r] = Some(extension_error(".exe"))
    /\ pc[r] = "closed"
    /\ r \notin uploads

\* C22: generate_speech with the empty text raises the input error at once:
\* the engine is not called, no name is drawn and no file is created. With a
\* non-empty text every call draws a name that no earlier call drew and that no
\* file bears, and the files already there stay as they were.
C22_EmptyTextAndFreshNames ==
  \A i \in 1..Len(synth_log) :
    LET c == synth_log[i]
    IN  /\ \A p \in DOMAIN c.before : p \in DOMAIN c.after /\ c.after[p] = c.before[p]
        /\ c.text = "" =>
             /\ c.raised
             /\ c.msg = <<"Empty text cannot be converted to speech">>
             /\ ~c.engine_used
             /\ ~c.named
             /\ ~c.wrote
             /\ c.path = None
             /\ c.after = c.before
        /\ c.text # "" =>
             /\ c.named
             /\ c.engine_used
             /\ c.id \notin DOMAIN c.before
             /\ \A j \in 1..(i - 1) : synth_log[j].named => synth_log[j].id # c.id
             /\ c.wrote => DOMAIN c.after = DOMAIN c.before \cup {c.id}
             /\ ~c.raised => (c.path = Some(c.id) /\ c.wrote /\ c.after[c.id] = "complete")

\* a file was written, the empty text was refused, and another file was
\* written under a new name
C22_Witness ==
  /\ Len(synth_log) = 3
  /\ ~synth_log[1].raised
  /\ synth_log[2].text = ""
  /\ ~synth_log[3].raised
  /\ synth_log[3].path # synth_log[1].path
  /\ synth_log[1].id \in DOMAIN synth_log[3].after

\* C24: a get_speech call whose synthesis fails (empty text or engine failure,
\* use_cache true or false) raises, returns nothing and leaves the cache as it
\* was; the next call with the same text runs the synthesizer again.
C24_FailureThenSynthesizedAgain ==
  \A i \in 1..Len(calls) :
    (calls[i].op = "get_speech" /\ calls[i].failed) =>
      /\ calls[i].raised
      /\ calls[i].ret = None
      /\ calls[i].after = calls[i].before
      /\ \A j \in (i + 1)..Len(calls) :
           ( /\ calls[j].op = "get_speech"
             /\ calls[j].text = calls[i].text
             /\ \A k \in (i + 1)..(j - 1) :
                  ~(calls[k].op = "get_speech" /\ calls[k].text = calls[i].text) )
           => calls[j].invoked

\* C24, amended: as above, the next call with the same text running the
\* synthesizer again when the text had no entry before the failed call.
C24_FailureStoresNothing ==
  \A i \in 1..Len(calls) :
    (calls[i].op = "get_speech" /\ calls[i].failed) =>
      /\ calls[i].raised
      /\ calls[i].ret = None
      /\ calls[i].after = calls[i].before
      /\ \A j \in (i + 1)..Len(calls) :
           ( /\ calls[j].op = "get_speech"
             /\ calls[j].text = calls[i].text
             /\ calls[i].text \notin DOMAIN calls[i].before
             /\ \A k \in (i + 1)..(j - 1) :
                  ~(calls[k].op = "get_speech" /\ calls[k].text = calls[i].text) )
           => calls[j].invoked

\* the engine failed on a text with use_cache true, and the next call for
\* that text, again with use_cache true, ran the synthesizer
C24_Witness ==
  \E i \in 1..Len(calls) :
    /\ i < Len(calls)
    /\ calls[i].op = "get_speech" /\ calls[i].failed /\ calls[i].use_cache
    /\ calls[i].text = "a"
    /\ calls[i + 1].op = "get_speech" /\ calls[i + 1].use_cache
    /\ calls[i + 1].text = "a"
    /\ calls[i + 1].invoked

\* C25: a load_model call whose load fails raises the model-load error and
\* leaves the cache without an entry for that name, so the next call for the
\* name attempts the load again; every handle in the cache is the one a load
\* that succeeded for that name returned.
C25_FailedLoadStoresNothing ==
  /\ \A i \in 1..Len(loads) :
       loads[i].failed =>
         /\ loads[i].raised
         /\ loads[i].msg = load_error(loads[i].inner)
         /\ loads[i].model = None
         /\ loads[i].name \notin DOMAIN loads[i].after
         /\ loads[i].after = loads[i].before
         /\ \A j \in (i + 1)..Len(loads) :
              ( /\ loads[j].name = loads[i].name
                /\ \A k \in (i + 1)..(j - 1) : loads[k].name # loads[i].name )
              => loads[j].attempted
  /\ \A name \in DOMAIN mgr_cache :
       \E i \in 1..Len(loads) :
         /\ loads[i].name = name
         /\ loads[i].attempted
         /\ ~loads[i].failed
         /\ ~loads[i].raised
         /\ loads[i].model = Some(mgr_cache[name])

\* a load failed, the next call loaded the model, the third call reused it
C25_Witness ==
  /\ Len(loads) = 3
  /\ loads[1].name = ModelName /\ loads[1].failed
  /\ loads[2].name = ModelName /\ loads[2].attempted /\ ~loads[2].raised
  /\ loads[3].name = ModelName /\ ~loads[3].attempted
  /\ loads[3].model = loads[2].model

\* C26: when the result of a request is assembled, it carries speech only if
\* the speech step returned a path and a file is at that path; if the speech
\* step returned a path whose file is missing, the result has speech absent
\* and success=true.
C26_SpeechOnlyForExistingFile ==
  [][ \A r \in Reqs :
        (result[r] = None /\ result'[r] # None) =>
          LET res == result'[r][1]
          IN  /\ res.speech # None =>
                   /\ speech_file[r] # None
                   /\ res.speech[1].file_path = speech_file[r][1]
                   /\ speech_file[r][1] \in DOMAIN audio_files
              /\ (speech_file[r] # None /\ speech_file[r][1] \notin DOMAIN audio_files) =>
                   /\ res.success = TRUE
                   /\ res.speech = None
    ]_vars

====
